---------------------------- MODULE Spec2Model ----------------------------
(***************************************************************************)
(* kazlog (src/kazlog/kazlog.h): the positional Formatter and the Logger   *)
(* dispatch pipeline (severity filter, warn_once dedup table, fan-out to   *)
(* the handler list).                                                      *)
(*                                                                         *)
(* A std::string is a sequence of one-character strings; names that are    *)
(* only copied (a file name, a message text, a thread id) are one symbol.  *)
(***************************************************************************)
EXTENDS Integers, Sequences, FiniteSets, TLC

(***************************************************************************)
(* Bounds of the model.                                                    *)
(***************************************************************************)
MaxPieces == 3      \* pieces a template is built from
MaxArgs == 2        \* arguments handed to Formatter::format
MaxAttach == 2      \* add_handler calls over all loggers
MaxClock == 1       \* readings the wall clock advances through

(***************************************************************************)
(* enum LOG_LEVEL                                                          *)
(***************************************************************************)
LOG_LEVEL_NONE == 0
LOG_LEVEL_ERROR == 1
LOG_LEVEL_WARN == 2
LOG_LEVEL_INFO == 3
LOG_LEVEL_DEBUG == 4
LOG_LEVEL == {LOG_LEVEL_NONE, LOG_LEVEL_ERROR, LOG_LEVEL_WARN, LOG_LEVEL_INFO,
              LOG_LEVEL_DEBUG}

(***************************************************************************)
(* Strings.                                                                *)
(***************************************************************************)
Digits == <<"0", "1", "2", "3", "4", "5", "6", "7", "8", "9">>

RECURSIVE to_string_nat(_)
to_string_nat(n) ==
    IF n < 10 THEN <<Digits[n + 1]>>
    ELSE to_string_nat(n \div 10) \o <<Digits[(n % 10) + 1]>>

\* std::to_string(int) and operator<<(ostream&, int): signed decimal.
to_string(n) ==
    IF n < 0 THEN <<"-">> \o to_string_nat(0 - n) ELSE to_string_nat(n)

\* std::string::npos, the "not found" result of find.
npos == 2147483647

\* s.find(sub): the 0-based position of the first occurrence, or npos.
find(s, sub) ==
    LET hits == {p \in 0..(Len(s) - Len(sub)) :
                    SubSeq(s, p + 1, p + Len(sub)) = sub}
    IN IF hits = {} THEN npos
       ELSE CHOOSE p \in hits : \A q \in hits : p <= q

Min(a, b) == IF a < b THEN a ELSE b

\* replace as it would be if a position past the end were a silent no-op.
replace_no_throw(s, pos, n, r) ==
    IF pos > Len(s) THEN [thrown |-> FALSE, str |-> s]
    ELSE [thrown |-> FALSE,
          str |-> SubSeq(s, 1, pos) \o r
                  \o SubSeq(s, pos + Min(n, Len(s) - pos) + 1, Len(s))]

\* s.replace(pos, n, r): throws std::out_of_range when pos > s.size(),
\* otherwise replaces the characters [pos, pos + min(n, size - pos)).
replace(s, pos, n, r) ==
    IF pos > Len(s) THEN [thrown |-> TRUE, str |-> <<>>]
    ELSE [thrown |-> FALSE,
          str |-> SubSeq(s, 1, pos) \o r
                  \o SubSeq(s, pos + Min(n, Len(s) - pos) + 1, Len(s))]

(***************************************************************************)
(* Formatter.  A value handed to format is an int, a string or a           *)
(* Formatter::Counter.                                                     *)
(***************************************************************************)
IntVal(n) == [type |-> "int", val |-> n, str |-> <<>>]
StrVal(s) == [type |-> "string", val |-> 0, str |-> s]
Counter(n) == [type |-> "Counter", val |-> n, str |-> <<>>]

\* "ss << val" compiles: an operator<< exists for ints and strings, none
\* for the private struct Counter.
Streamable(v) == v.type \in {"int", "string"}

\* ss << val; ss.str()
Stringify(v) == IF v.type = "int" THEN to_string(v.val) ELSE v.str

\* What a call of format gives its caller.
Returned(s) == [kind |-> "string", str |-> s]
OutOfRange == [kind |-> "out_of_range", str |-> <<>>]
IllFormed == [kind |-> "ill_formed", str |-> <<>>]
NoResult == [kind |-> "none", str |-> <<>>]

Placeholder(i) == <<"{">> \o to_string(i) \o <<"}">>

RECURSIVE do_format(_, _, _)
RECURSIVE format(_, _)

\* do_format(Counter count, T val)
do_format_last(str, count, val) ==
    LET to_replace == Placeholder(count)
        r == replace(str, find(str, to_replace), Len(to_replace), Stringify(val))
    IN IF r.thrown THEN OutOfRange ELSE Returned(r.str)

\* do_format(Counter count, T val, const Args&... args): the tail call goes
\* to format, which starts a fresh Counter() and takes Counter(count.val + 1)
\* as the first value to substitute.
do_format_more(str, count, val, args) ==
    LET to_replace == Placeholder(count)
        r == replace(str, find(str, to_replace), Len(to_replace), Stringify(val))
    IN IF r.thrown THEN OutOfRange
       ELSE format(r.str, <<Counter(count + 1)>> \o args)

\* Overload resolution between the two do_format templates.
do_format(str, count, vals) ==
    IF Len(vals) = 1 THEN do_format_last(str, count, vals[1])
    ELSE do_format_more(str, count, vals[1], Tail(vals))

format(str, vals) == do_format(str, 0, vals)

\* Whether format<Args...> instantiates: every do_format body it reaches
\* must compile.  With two or more values the second overload is chosen,
\* its tail call instantiates format<Counter, Args...>, and that one streams
\* a Counter.
RECURSIVE Instantiates(_)
Instantiates(vals) ==
    IF Len(vals) = 1 THEN Streamable(vals[1])
    ELSE Streamable(vals[1]) /\ Instantiates(<<Counter(1)>> \o Tail(vals))

\* Formatter(str).format(vals...) as the build gives it: no program when the
\* call does not instantiate.
Formatter_format(str, vals) ==
    IF Instantiates(vals) THEN format(str, vals) ELSE IllFormed


(***************************************************************************)
(* The universe the operations draw their inputs from.                     *)
(***************************************************************************)
Names == {"root", "net"}            \* logger names asked of get_logger
Root == {"root"}                    \* the implicit default logger alone
Handlers == {"h1", "h2"}            \* Handler instances (Handler::ptr)
Threads == {"t1", "t2"}             \* std::this_thread::get_id() values
MainThread == "t1"
Texts == {<<"x">>}
\* (file, line) of a call: the defaults "None", -1 and two call sites.
Sites == {<<"None", 0 - 1>>, <<"f.cpp", 10>>, <<"f.cpp", 11>>}
Files == {s[1] : s \in Sites}
Lines == {s[2] : s \in Sites}

\* Templates: concatenations of at most MaxPieces pieces.
Pieces == {<<"{", "0", "}">>, <<"{", "1", "}">>, <<"-">>, <<"{">>}

RECURSIVE Templates(_)
Templates(n) ==
    IF n = 0 THEN {<<>>}
    ELSE LET shorter == Templates(n - 1)
         IN shorter \cup {t \o p : t \in shorter, p \in Pieces}

Values == {IntVal(42), IntVal(0 - 1), StrVal(<<"x">>), StrVal(<<"{", "1", "}">>)}

ArgLists == UNION {[1..n -> Values] : n \in 1..MaxArgs}

(***************************************************************************)
(* State.                                                                  *)
(***************************************************************************)
VARIABLES
    str_,       \* Formatter::str_ of the Formatter under test
    fargs,      \* the values handed to its format
    ret,        \* what format gave its caller
    registry,   \* the names get_logger has created a Logger for
    level_,     \* Logger::level_, per logger name
    handlers_,  \* Logger::handlers_, per logger name
    warned,     \* the static dedup table of warn_once: file -> set of lines
    clock,      \* std::chrono::system_clock
    failing,    \* the handlers whose write raises
    last,       \* the latest logging call under the current configuration,
                \* and what the handlers saw of it
    pc,         \* per thread: where its logging call stands
    frame       \* per thread: the arguments and locals of its call

vars == <<str_, fargs, ret, registry, level_, handlers_, warned, clock,
          failing, last, pc, frame>>

fmt_vars == <<str_, fargs, ret>>
log_vars == <<registry, level_, handlers_, warned, clock, failing, last>>
mt_vars == <<pc, frame>>

NoCall ==
    [op |-> "none", lg |-> "", text |-> <<>>, file |-> "", line |-> 0,
     thr |-> 0, hs |-> <<>>, already_logged |-> FALSE, formatted |-> FALSE,
     inv |-> <<>>, raised |-> FALSE]

NoFrame ==
    [op |-> "none", lg |-> "", text |-> <<>>, file |-> "", line |-> 0,
     thr |-> 0, already_logged |-> FALSE, seen |-> {}, level |-> "",
     message |-> <<>>, i |-> 0, inv |-> <<>>]

\* No Logger exists yet; Logger::Logger(name) gives each one threshold DEBUG
\* and no handlers.  The dedup table is empty until the first warn_once.
InitLoggers ==
    /\ registry = {}
    /\ level_ = [n \in Names |-> LOG_LEVEL_DEBUG]
    /\ handlers_ = [n \in Names |-> <<>>]
    /\ warned = [f \in Files |-> {}]
    /\ clock = 0
    /\ last = NoCall

InitThreads ==
    /\ pc = [t \in Threads |-> "idle"]
    /\ frame = [t \in Threads |-> NoFrame]

InitFormatter ==
    /\ str_ = <<>>
    /\ fargs = <<>>
    /\ ret = NoResult

(***************************************************************************)
(* The Formatter on its own: Formatter(str_).format(fargs...).             *)
(***************************************************************************)
InitFmt ==
    /\ str_ \in Templates(MaxPieces)
    /\ fargs \in ArgLists
    /\ ret = NoResult
    /\ InitLoggers
    /\ failing = {}
    /\ InitThreads

Format ==
    /\ ret = NoResult
    /\ ret' = Formatter_format(str_, fargs)
    /\ UNCHANGED <<str_, fargs, log_vars, mt_vars>>

NextFmt == Format

SpecFmt == InitFmt /\ [][NextFmt]_vars

(***************************************************************************)
(* Logger, one call at a time: every method runs to its return.            *)
(***************************************************************************)
\* Logger(name): level_(LOG_LEVEL_DEBUG), and handlers_ default-constructed;
\* the alternative starts a logger at INFO.
Logger_ctor_info == [level_ |-> LOG_LEVEL_INFO, handlers_ |-> <<>>]

Logger_ctor == [level_ |-> LOG_LEVEL_DEBUG, handlers_ |-> <<>>]

\* get_logger(name) is declared here and defined elsewhere: the Logger for
\* name, constructed by Logger::Logger(name) on the first request.
GetLogger(name) ==
    /\ registry' = registry \cup {name}
    /\ level_' = IF name \in registry THEN level_
                 ELSE [level_ EXCEPT ![name] = Logger_ctor.level_]
    /\ handlers_' = IF name \in registry THEN handlers_
                    ELSE [handlers_ EXCEPT ![name] = Logger_ctor.handlers_]
    /\ UNCHANGED <<warned, clock, failing, last, fmt_vars, mt_vars>>

RECURSIVE Attached(_)
Attached(names) ==
    IF names = {} THEN 0
    ELSE LET n == CHOOSE x \in names : TRUE
         IN Len(handlers_[n]) + Attached(names \ {n})

\* A list that refuses an entry it already holds.
push_back_unique(list, handler) ==
    IF \E i \in 1..Len(list) : list[i] = handler THEN list
    ELSE Append(list, handler)

\* std::vector::push_back
push_back(list, handler) == Append(list, handler)

\* handlers_.push_back(handler)
AddHandler(lg, handler) ==
    /\ lg \in registry
    /\ Attached(Names) < MaxAttach
    /\ handlers_' = [handlers_ EXCEPT ![lg] = push_back(@, handler)]
    /\ last' = NoCall
    /\ UNCHANGED <<registry, level_, warned, clock, failing, fmt_vars, mt_vars>>

\* A threshold that is one variable for all loggers.
SetLevel_shared(lg, level) ==
    /\ lg \in registry
    /\ level_' = [n \in Names |-> level]
    /\ last' = NoCall
    /\ UNCHANGED <<registry, handlers_, warned, clock, failing, fmt_vars, mt_vars>>

\* level_ = level
SetLevel(lg, level) ==
    /\ lg \in registry
    /\ level_' = [level_ EXCEPT ![lg] = level]
    /\ last' = NoCall
    /\ UNCHANGED <<registry, handlers_, warned, clock, failing, fmt_vars, mt_vars>>

\* The wall clock advances on its own.
Tick ==
    /\ clock < MaxClock
    /\ clock' = clock + 1
    /\ UNCHANGED <<registry, level_, handlers_, warned, failing, last,
                   fmt_vars, mt_vars>>

\* below as it would be with the boundary included, and with the comparison
\* reversed.
below_or_equal(lg, severity) == level_[lg] <= severity
below_reversed(lg, severity) == level_[lg] > severity

\* "if(level_ < LOG_LEVEL_X) return;"
below(lg, severity) == level_[lg] < severity

\* HandlerAt as it would be if the list were walked from its end.
HandlerAt_reversed(lg, i) == handlers_[lg][Len(handlers_[lg]) - i]

\* handlers_[i]
HandlerAt(lg, i) == handlers_[lg][i + 1]

\* What Handler::write_message is handed.
Invocation(h, lg, time, level, message) ==
    [handler |-> h, logger |-> lg, time |-> time, level |-> level,
     message |-> message]

\* Handler::write_message is declared here and defined elsewhere: it hands
\* the record to do_write_message, and a write that fails raises.
Handler_write_raises(h) == h \in failing

\* The message as it would be with a template that has no {0} in it.
message_text_by_index(tid, text, file, line) ==
    LET f == Formatter_format(<<"{", "1", "}">>, <<IntVal(line)>>)
    IN [ok |-> f.kind = "string",
        str |-> <<tid, ":", " ">> \o text \o <<" ", "(", file, ":">>
                \o f.str \o <<")">>]

\* s << get_id() << ": "; s << text << " (" << file << ":"
\*   << _F("{0}").format(line) << ")"
message_text(tid, text, file, line) ==
    LET f == Formatter_format(<<"{", "0", "}">>, <<IntVal(line)>>)
    IN [ok |-> f.kind = "string",
        str |-> <<tid, ":", " ">> \o text \o <<" ", "(", file, ":">>
                \o f.str \o <<")">>]

\* for(i = 0; i < handlers_.size(); ++i)
\*     handlers_[i]->write_message(this, system_clock::now(), level, s.str());
\* from index i on, the clock last read as `now`: every way the loop can go.
\* A handler that raises ends the loop: nothing catches.
RECURSIVE fan_out(_, _, _, _, _)
fan_out(lg, level, message, i, now) ==
    IF ~(i < Len(handlers_[lg]))
    THEN {[inv |-> <<>>, raised |-> FALSE, clock |-> now]}
    ELSE UNION {
        LET call == Invocation(HandlerAt(lg, i), lg, t, level, message)
        IN IF Handler_write_raises(HandlerAt(lg, i))
           THEN {[inv |-> <<call>>, raised |-> TRUE, clock |-> t]}
           ELSE {[inv |-> <<call>> \o o.inv, raised |-> o.raised,
                  clock |-> o.clock] :
                    o \in fan_out(lg, level, message, i + 1, t)}
        : t \in now..MaxClock}

\* What is kept of a call: its arguments, the threshold and the handler list
\* it met, and what it did.
Observed(op, lg, text, file, line, already, formatted, inv, raised) ==
    [op |-> op, lg |-> lg, text |-> text, file |-> file, line |-> line,
     thr |-> level_[lg], hs |-> handlers_[lg], already_logged |-> already,
     formatted |-> formatted, inv |-> inv, raised |-> raised]

\* A return that comes only after the message was assembled.
returns_formatted(op, lg, text, file, line) ==
    /\ last' = Observed(op, lg, text, file, line, FALSE, TRUE, <<>>,
                        ~message_text(MainThread, text, file, line).ok)
    /\ clock' = clock

\* The early return of a severity method.
returns(op, lg, text, file, line) ==
    /\ last' = Observed(op, lg, text, file, line, FALSE, FALSE, <<>>, FALSE)
    /\ clock' = clock

\* Logger::write_message(level, text, file, line)
write_message(op, lg, level, text, file, line) ==
    LET m == message_text(MainThread, text, file, line)
    IN IF ~m.ok
       THEN /\ last' = Observed(op, lg, text, file, line, FALSE, TRUE, <<>>, TRUE)
            /\ clock' = clock
       ELSE \E o \in fan_out(lg, level, m.str, 0, clock) :
            /\ last' = Observed(op, lg, text, file, line, FALSE, TRUE,
                                o.inv, o.raised)
            /\ clock' = o.clock

debug(op, lg, text, file, line) ==
    IF below(lg, LOG_LEVEL_DEBUG) THEN returns(op, lg, text, file, line)
    ELSE write_message(op, lg, "DEBUG", text, file, line)

info(op, lg, text, file, line) ==
    IF below(lg, LOG_LEVEL_INFO) THEN returns(op, lg, text, file, line)
    ELSE write_message(op, lg, "INFO", text, file, line)

warn(op, lg, text, file, line) ==
    IF below(lg, LOG_LEVEL_WARN) THEN returns(op, lg, text, file, line)
    ELSE write_message(op, lg, "WARN", text, file, line)

error(op, lg, text, file, line) ==
    IF below(lg, LOG_LEVEL_ERROR) THEN returns(op, lg, text, file, line)
    ELSE write_message(op, lg, "ERROR", text, file, line)

\* already_logged as it would be if the file alone were looked up.
already_logged_file_only(file, line) == warned[file] # {}

\* warned.find(file) != warned.end() && warned[file].count(line)
already_logged(file, line) == line \in warned[file]

\* A table that keeps only the last line of a file.
warned_assign(file, line) == [warned EXCEPT ![file] = {line}]

\* warned[file].insert(line)
warned_insert(file, line) == [warned EXCEPT ![file] = @ \cup {line}]

\* warn_once as it would be if line -1 were a key like any other.
warn_once_keyed(lg, text, file, line) ==
    IF already_logged(file, line)
    THEN /\ last' = Observed("warn_once", lg, text, file, line, TRUE,
                             FALSE, <<>>, FALSE)
         /\ UNCHANGED <<warned, clock>>
    ELSE /\ warned' = warned_insert(file, line)
         /\ warn("warn_once", lg, text, file, line)

\* warn_once as it would be if the key were kept only by a call that logs.
warn_once_keep_if_logged(lg, text, file, line) ==
    IF line = 0 - 1
    THEN /\ warn("warn_once", lg, text, file, line)
         /\ warned' = warned
    ELSE IF already_logged(file, line)
         THEN /\ last' = Observed("warn_once", lg, text, file, line, TRUE,
                                  FALSE, <<>>, FALSE)
              /\ UNCHANGED <<warned, clock>>
         ELSE /\ warned' = IF below(lg, LOG_LEVEL_WARN) THEN warned
                           ELSE warned_insert(file, line)
              /\ warn("warn_once", lg, text, file, line)

warn_once(lg, text, file, line) ==
    IF line = 0 - 1
    THEN /\ warn("warn_once", lg, text, file, line)
         /\ warned' = warned
    ELSE IF already_logged(file, line)
         THEN /\ last' = Observed("warn_once", lg, text, file, line, TRUE,
                                  FALSE, <<>>, FALSE)
              /\ UNCHANGED <<warned, clock>>
         ELSE /\ warned' = warned_insert(file, line)
              /\ warn("warn_once", lg, text, file, line)

Debug(lg, text, file, line) ==
    /\ lg \in registry
    /\ debug("debug", lg, text, file, line)
    /\ UNCHANGED <<registry, level_, handlers_, warned, failing, fmt_vars, mt_vars>>

Info(lg, text, file, line) ==
    /\ lg \in registry
    /\ info("info", lg, text, file, line)
    /\ UNCHANGED <<registry, level_, handlers_, warned, failing, fmt_vars, mt_vars>>

Warn(lg, text, file, line) ==
    /\ lg \in registry
    /\ warn("warn", lg, text, file, line)
    /\ UNCHANGED <<registry, level_, handlers_, warned, failing, fmt_vars, mt_vars>>

WarnOnce(lg, text, file, line) ==
    /\ lg \in registry
    /\ warn_once(lg, text, file, line)
    /\ UNCHANGED <<registry, level_, handlers_, failing, fmt_vars, mt_vars>>

Error(lg, text, file, line) ==
    /\ lg \in registry
    /\ error("error", lg, text, file, line)
    /\ UNCHANGED <<registry, level_, handlers_, warned, failing, fmt_vars, mt_vars>>

Init ==
    /\ InitFormatter
    /\ InitLoggers
    /\ failing = {}
    /\ InitThreads

Next ==
    \/ \E name \in Root : GetLogger(name)
    \/ \E lg \in Root, h \in Handlers : AddHandler(lg, h)
    \/ \E lg \in Root, level \in LOG_LEVEL : SetLevel(lg, level)
    \/ Tick
    \/ \E lg \in Root, text \in Texts, s \in Sites : Debug(lg, text, s[1], s[2])
    \/ \E lg \in Root, text \in Texts, s \in Sites : Info(lg, text, s[1], s[2])
    \/ \E lg \in Root, text \in Texts, s \in Sites : Warn(lg, text, s[1], s[2])
    \/ \E lg \in Root, text \in Texts, s \in Sites : WarnOnce(lg, text, s[1], s[2])
    \/ \E lg \in Root, text \in Texts, s \in Sites : Error(lg, text, s[1], s[2])

Spec == Init /\ [][Next]_vars

\* The same program with handlers whose write can fail.
InitFail ==
    /\ InitFormatter
    /\ InitLoggers
    /\ failing \in SUBSET Handlers
    /\ InitThreads

SpecFail == InitFail /\ [][Next]_vars

\* The same program with two named loggers, two call sites in one file, one
\* of them without a line, and the thresholds that matter to a WARN record.
TwoSites == {<<"f.cpp", 0 - 1>>, <<"f.cpp", 10>>}
TwoLevels == {LOG_LEVEL_NONE, LOG_LEVEL_WARN, LOG_LEVEL_DEBUG}

NextTwo ==
    \/ \E name \in Names : GetLogger(name)
    \/ \E lg \in Names, h \in Handlers : AddHandler(lg, h)
    \/ \E lg \in Names, level \in TwoLevels : SetLevel(lg, level)
    \/ Tick
    \/ \E lg \in Names, text \in Texts, s \in TwoSites : Debug(lg, text, s[1], s[2])
    \/ \E lg \in Names, text \in Texts, s \in TwoSites : Info(lg, text, s[1], s[2])
    \/ \E lg \in Names, text \in Texts, s \in TwoSites : Warn(lg, text, s[1], s[2])
    \/ \E lg \in Names, text \in Texts, s \in TwoSites : WarnOnce(lg, text, s[1], s[2])
    \/ \E lg \in Names, text \in Texts, s \in TwoSites : Error(lg, text, s[1], s[2])

SpecTwo == Init /\ [][NextTwo]_vars

(***************************************************************************)
(* Logger, called from several threads: nothing in the class locks, so a   *)
(* call advances one access to shared state at a time.  The loggers are    *)
(* configured before the threads start.                                    *)
(***************************************************************************)
\* The threshold a severity method compares with, and the name it logs.
method_level(op) ==
    CASE op = "debug" -> LOG_LEVEL_DEBUG
      [] op = "info" -> LOG_LEVEL_INFO
      [] op \in {"warn", "warn_once"} -> LOG_LEVEL_WARN
      [] op = "error" -> LOG_LEVEL_ERROR

method_name(op) ==
    CASE op = "debug" -> "DEBUG"
      [] op = "info" -> "INFO"
      [] op \in {"warn", "warn_once"} -> "WARN"
      [] op = "error" -> "ERROR"

Methods == {"debug", "info", "warn", "warn_once", "error"}

\* Thread t enters a severity method; warn_once with a line goes to the
\* dedup table first.
Enter(t, op, lg, text, file, line) ==
    /\ pc[t] = "idle"
    /\ lg \in registry
    /\ frame' = [frame EXCEPT ![t] =
                    [NoFrame EXCEPT !.op = op, !.lg = lg, !.text = text,
                                    !.file = file, !.line = line]]
    /\ pc' = [pc EXCEPT ![t] =
                 IF op = "warn_once" /\ line # 0 - 1 THEN "lookup" ELSE "filter"]
    /\ UNCHANGED <<log_vars, fmt_vars>>

\* bool already_logged = ...; if(already_logged) return;
Lookup(t) ==
    /\ pc[t] = "lookup"
    /\ LET found == already_logged(frame[t].file, frame[t].line)
       IN IF found
          THEN /\ pc' = [pc EXCEPT ![t] = "idle"]
               /\ frame' = [frame EXCEPT ![t] = NoFrame]
          ELSE /\ pc' = [pc EXCEPT ![t] = "insert"]
               /\ frame' = [frame EXCEPT ![t].already_logged = FALSE]
    /\ UNCHANGED <<log_vars, fmt_vars>>

\* warned[file].insert(line), unsynchronised: the set is read ...
Insert(t) ==
    /\ pc[t] = "insert"
    /\ frame' = [frame EXCEPT ![t].seen = warned[frame[t].file]]
    /\ pc' = [pc EXCEPT ![t] = "store"]
    /\ UNCHANGED <<log_vars, fmt_vars>>

\* ... and written back with the line added; then warn(text, file, line).
Store(t) ==
    /\ pc[t] = "store"
    /\ warned' = [warned EXCEPT ![frame[t].file] =
                     frame[t].seen \cup {frame[t].line}]
    /\ pc' = [pc EXCEPT ![t] = "filter"]
    /\ UNCHANGED <<registry, level_, handlers_, clock, failing, last, frame,
                   fmt_vars>>

\* if(level_ < LOG_LEVEL_X) return; then the head of write_message, which
\* assembles the text.
Filter(t) ==
    /\ pc[t] = "filter"
    /\ LET f == frame[t]
           m == message_text(t, f.text, f.file, f.line)
       IN IF below(f.lg, method_level(f.op)) \/ ~m.ok
          THEN /\ pc' = [pc EXCEPT ![t] = "idle"]
               /\ frame' = [frame EXCEPT ![t] = NoFrame]
          ELSE /\ pc' = [pc EXCEPT ![t] = "loop"]
               /\ frame' = [frame EXCEPT ![t].thr = level_[f.lg],
                                         ![t].level = method_name(f.op),
                                         ![t].message = m.str,
                                         ![t].i = 0]
    /\ UNCHANGED <<log_vars, fmt_vars>>

\* One turn of the loop: handlers_[i]->write_message(this, now(), level, s.str())
Invoke(t) ==
    /\ pc[t] = "loop"
    /\ LET f == frame[t]
       IN /\ f.i < Len(handlers_[f.lg])
          /\ LET h == HandlerAt(f.lg, f.i)
                 call == Invocation(h, f.lg, clock, f.level, f.message)
             IN IF Handler_write_raises(h)
                THEN /\ pc' = [pc EXCEPT ![t] = "idle"]
                     /\ frame' = [frame EXCEPT ![t] = NoFrame]
                ELSE /\ pc' = pc
                     /\ frame' = [frame EXCEPT ![t].inv = Append(@, call),
                                               ![t].i = @ + 1]
    /\ UNCHANGED <<log_vars, fmt_vars>>

\* i < handlers_.size() fails: the method returns.
Return(t) ==
    /\ pc[t] = "loop"
    /\ ~(frame[t].i < Len(handlers_[frame[t].lg]))
    /\ pc' = [pc EXCEPT ![t] = "idle"]
    /\ frame' = [frame EXCEPT ![t] = NoFrame]
    /\ UNCHANGED <<log_vars, fmt_vars>>

HandlerLists == UNION {[1..n -> Handlers] : n \in 0..MaxAttach}

\* The root logger, as get_logger, set_level and add_handler leave it.
InitMT ==
    /\ InitFormatter
    /\ registry = Root
    /\ level_ \in [Names -> LOG_LEVEL]
    /\ \A n \in Names \ Root : level_[n] = LOG_LEVEL_DEBUG
    /\ handlers_ \in [Names -> HandlerLists]
    /\ \A n \in Names \ Root : handlers_[n] = <<>>
    /\ warned = [f \in Files |-> {}]
    /\ clock = 0
    /\ failing = {}
    /\ last = NoCall
    /\ InitThreads

NextMT ==
    \/ \E t \in Threads, op \in Methods, lg \in Root, text \in Texts, s \in Sites :
            Enter(t, op, lg, text, s[1], s[2])
    \/ \E t \in Threads : Lookup(t)
    \/ \E t \in Threads : Insert(t)
    \/ \E t \in Threads : Store(t)
    \/ \E t \in Threads : Filter(t)
    \/ \E t \in Threads : Invoke(t)
    \/ \E t \in Threads : Return(t)

SpecMT == InitMT /\ [][NextMT]_vars

(***************************************************************************)
(* Properties.                                                             *)
(***************************************************************************)
\* The record level of a severity method.
SeverityOf(op) ==
    CASE op = "debug" -> LOG_LEVEL_DEBUG
      [] op = "info" -> LOG_LEVEL_INFO
      [] op = "warn" -> LOG_LEVEL_WARN
      [] op = "warn_once" -> LOG_LEVEL_WARN
      [] op = "error" -> LOG_LEVEL_ERROR

\* The handlers a call invoked, in the order it invoked them.
InvokedBy(c) == [i \in 1..Len(c.inv) |-> c.inv[i].handler]

\* C1: a debug, info, warn or error call invokes handlers if and only if
\* its level is <= the threshold at the time of the call, and then it invokes
\* every attached handler exactly once (so none at threshold INFO for debug,
\* all for warn and error).
C1_SeverityFilter ==
    last.op \in {"debug", "info", "warn", "error"} =>
        InvokedBy(last) = IF SeverityOf(last.op) <= last.thr THEN last.hs
                          ELSE <<>>

C1_Witness ==
    /\ last.op = "warn"
    /\ last.thr = LOG_LEVEL_INFO
    /\ Len(last.hs) = 2
    /\ Len(last.inv) = 2

\* C3: within one logging call all handlers receive the same timestamp.
C3_SingleTimestamp ==
    last.op # "none" =>
        \A i, j \in 1..Len(last.inv) : last.inv[i].time = last.inv[j].time

\* C4: on a logger whose threshold admits WARN and which has one handler,
\* two warn_once calls with the same (file, line), line # -1, invoke the
\* handler once in total; with the same file and two different lines, neither
\* seen before, twice.
OnceCall(c) == c.op = "warn_once" /\ c.line # 0 - 1

AdmitsWarnOneHandler(c) == c.thr >= LOG_LEVEL_WARN /\ Len(c.hs) = 1

C4_WarnOnceDedup ==
    [][(/\ \E lg \in Root, text \in Texts, s \in Sites :
                WarnOnce(lg, text, s[1], s[2])
        /\ OnceCall(last) /\ ~last.already_logged /\ AdmitsWarnOneHandler(last)
        /\ OnceCall(last') /\ AdmitsWarnOneHandler(last')
        /\ last'.file = last.file)
       => IF last'.line = last.line
          THEN Len(last.inv) + Len(last'.inv) = 1
          ELSE last'.line \notin warned[last.file]
                  => Len(last.inv) + Len(last'.inv) = 2]_vars

C4_Witness ==
    /\ OnceCall(last)
    /\ AdmitsWarnOneHandler(last)
    /\ last.already_logged
    /\ last.inv = <<>>

\* C6: while a logger's threshold is NONE no call on it, warn_once with any
\* file and line included, invokes a handler.
C6_NoneSuppressesAll ==
    (last.op # "none" /\ level_[last.lg] = LOG_LEVEL_NONE) => last.inv = <<>>

C6_Witness ==
    /\ OnceCall(last)
    /\ level_[last.lg] = LOG_LEVEL_NONE
    /\ last.hs # <<>>
    /\ last.inv = <<>>

\* C7: when one handler's write fails during a call that passed the filter,
\* every other handler of the logger still receives the record.
C7_FailureIsolation ==
    (last.op # "none" /\ last.formatted) =>
        \A i \in 1..Len(last.hs) :
            \E j \in 1..Len(last.inv) : last.inv[j].handler = last.hs[i]

\* C2: every call that passes the filter invokes each entry of the handler
\* list exactly once, in attachment order, each with the same message text
\* and the same level name, also while calls of other threads interleave.
InOrderSoFar(t) ==
    LET f == frame[t]
    IN /\ Len(f.inv) = f.i
       /\ f.i <= Len(handlers_[f.lg])
       /\ \A k \in 1..Len(f.inv) :
            /\ f.inv[k].handler = handlers_[f.lg][k]
            /\ f.inv[k].message = f.message
            /\ f.inv[k].level = f.level
            /\ f.inv[k].logger = f.lg

C2_FanOutInOrder ==
    /\ [](\A t \in Threads : pc[t] = "loop" => InOrderSoFar(t))
    /\ [][\A t \in Threads :
            (pc[t] = "loop" /\ pc'[t] = "idle")
                => InvokedBy(frame[t]) = handlers_[frame[t].lg]]_vars

C2_Witness ==
    \E t, u \in Threads :
        /\ t # u
        /\ pc[t] = "loop" /\ pc[u] = "loop"
        /\ frame[t].lg = frame[u].lg
        /\ handlers_[frame[t].lg] = <<"h1", "h2">>
        /\ InvokedBy(frame[t]) = <<"h1", "h2">>
        /\ InvokedBy(frame[u]) = <<"h1">>

\* C5: two threads in warn_once with the same (file, line), line # -1, not
\* yet in the table: at most one of the two calls reaches the handlers, and
\* once both are past the insert the key is in the table.
SameKeyOnce(t, u) ==
    /\ t # u
    /\ OnceCall(frame[t]) /\ OnceCall(frame[u])
    /\ frame[t].file = frame[u].file
    /\ frame[t].line = frame[u].line

C5_WarnOnceRaceFree ==
    \A t, u \in Threads :
        SameKeyOnce(t, u) =>
            /\ ~(frame[t].inv # <<>> /\ frame[u].inv # <<>>)
            /\ (pc[t] \in {"filter", "loop"} /\ pc[u] \in {"filter", "loop"})
                  => frame[t].line \in warned[frame[t].file]

(***************************************************************************)
(* Properties of the Formatter.                                            *)
(***************************************************************************)
Token(i) == <<"{", Digits[i + 1], "}">>

Positions(s, sub) ==
    {p \in 1..(Len(s) - Len(sub) + 1) : SubSeq(s, p, p + Len(sub) - 1) = sub}

Occurs(s, sub) == Positions(s, sub) # {}

\* The text of an argument: decimal for an integer.
TextOf(v) == IF v.type = "int" THEN to_string(v.val) ELSE v.str

\* s with the first occurrence of sub, if any, replaced by r.
ReplaceFirst(s, sub, r) ==
    IF ~Occurs(s, sub) THEN s
    ELSE LET p == CHOOSE q \in Positions(s, sub) :
                      \A o \in Positions(s, sub) : q <= o
         IN SubSeq(s, 1, p - 1) \o r \o SubSeq(s, p + Len(sub), Len(s))

\* The template after the first i arguments have been substituted.
RECURSIVE PartiallySubstituted(_, _, _)
PartiallySubstituted(t, vals, i) ==
    IF i = 0 THEN t
    ELSE ReplaceFirst(PartiallySubstituted(t, vals, i - 1), Token(i - 1),
                      TextOf(vals[i]))

\* The template with every {i}, i < Len(vals), replaced by the i-th
\* argument's text and every other character kept.
RECURSIVE Substituted(_, _)
Substituted(t, vals) ==
    LET here == {i \in 0..(Len(vals) - 1) :
                    Len(t) >= 3 /\ SubSeq(t, 1, 3) = Token(i)}
    IN IF t = <<>> THEN <<>>
       ELSE IF here # {}
            THEN TextOf(vals[(CHOOSE i \in here : TRUE) + 1])
                 \o Substituted(SubSeq(t, 4, Len(t)), vals)
            ELSE <<Head(t)>> \o Substituted(Tail(t), vals)

Formatted == ret.kind # "none"

\* C8: a template with more placeholders than arguments yields a
\* FormatError, never a partially substituted string.
C8_TooFewArgumentsIsError ==
    (Formatted /\ \E j \in Len(fargs)..9 : Occurs(str_, Token(j)))
        => ret.kind # "string"

\* C9: for a template holding each of {0}..{N-1} exactly once and exactly N
\* arguments, N >= 1, format returns the template with each {i} replaced by
\* the i-th argument's text and every other character unchanged.
C9_FormatSubstitutesAll ==
    (Formatted /\ \A i \in 0..(Len(fargs) - 1) :
                      Cardinality(Positions(str_, Token(i))) = 1)
        => ret = Returned(Substituted(str_, fargs))

\* C9 for one argument, which is how the Logger uses the Formatter.
FormatSubstitutesOne ==
    (Formatted /\ Len(fargs) = 1 /\ Cardinality(Positions(str_, Token(0))) = 1)
        => ret = Returned(Substituted(str_, fargs))

\* C10: when the placeholder {i} expected for the i-th argument is not in
\* the partially substituted template, format returns no string: the caller
\* gets std::out_of_range (a call with two or more arguments does not build).
MissingPlaceholder ==
    \E i \in 0..(Len(fargs) - 1) :
        ~Occurs(PartiallySubstituted(str_, fargs, i), Token(i))

C10_MissingPlaceholderIsError ==
    (Formatted /\ MissingPlaceholder) =>
        /\ ret.kind \in {"out_of_range", "ill_formed"}
        /\ Len(fargs) = 1 => ret = OutOfRange

C10_Witness ==
    /\ Formatted
    /\ Len(fargs) = 1
    /\ str_ = <<"-">> \o Token(1)
    /\ ret = OutOfRange

\* C11: warn_once with line -1 behaves exactly like warn with the same
\* arguments: it leaves the dedup table as it was, is never suppressed by
\* what the table holds for the file, and on a logger whose threshold admits
\* WARN every such call invokes every attached handler, however many calls
\* with the same file came before.
C11_NoLineIsPlainWarn ==
    [][(/\ last'.op = "warn_once"
        /\ last'.line = 0 - 1
        /\ WarnOnce(last'.lg, last'.text, last'.file, 0 - 1))
       => /\ warned' = warned
          /\ ~last'.already_logged
          /\ warn("warn_once", last'.lg, last'.text, last'.file, 0 - 1)
          /\ level_[last'.lg] >= LOG_LEVEL_WARN
                => InvokedBy(last') = handlers_[last'.lg]]_vars

C11_Witness ==
    /\ last.op = "warn_once"
    /\ last.line = 0 - 1
    /\ warned[last.file] # {}
    /\ Len(last.hs) = 2
    /\ InvokedBy(last) = last.hs

\* C12: get_logger(name) creates the logger on the first request, with
\* threshold DEBUG and no handlers, and on every later request gives the
\* logger that is already there, with the threshold and the handlers it was
\* given since; a request for one name never touches the logger of another.
C12_RegistryIdentity ==
    [][\A name \in Names :
          GetLogger(name) =>
              /\ registry' = registry \cup {name}
              /\ name \in registry =>
                    /\ level_'[name] = level_[name]
                    /\ handlers_'[name] = handlers_[name]
              /\ name \notin registry =>
                    /\ level_'[name] = LOG_LEVEL_DEBUG
                    /\ handlers_'[name] = <<>>
              /\ \A other \in Names \ {name} :
                    /\ level_'[other] = level_[other]
                    /\ handlers_'[other] = handlers_[other]]_vars

C12_Witness ==
    /\ registry = Names
    /\ level_["root"] = LOG_LEVEL_WARN
    /\ handlers_["root"] = <<"h1">>
    /\ level_["net"] = LOG_LEVEL_DEBUG
    /\ handlers_["net"] = <<>>

\* How often handler h occurs in the list of handlers hs.
CountOf(h, hs) == Cardinality({i \in 1..Len(hs) : hs[i] = h})

\* C13: add_handler grows the handler list by exactly one entry, at the
\* end, also when the handler is already in the list; a call that passes the
\* severity filter invokes a handler as many times as it is attached.
C13_AppendKeepsDuplicates ==
    /\ [][\A lg \in Root, h \in Handlers :
             AddHandler(lg, h) =>
                 /\ Len(handlers_'[lg]) = Len(handlers_[lg]) + 1
                 /\ SubSeq(handlers_'[lg], 1, Len(handlers_[lg])) = handlers_[lg]
                 /\ handlers_'[lg][Len(handlers_'[lg])] = h]_vars
    /\ [](last.formatted =>
             \A h \in Handlers :
                 CountOf(h, InvokedBy(last)) = CountOf(h, last.hs))

C13_Witness ==
    /\ last.formatted
    /\ last.hs = <<"h1", "h1">>
    /\ InvokedBy(last) = <<"h1", "h1">>

\* The (file, line) keys of the dedup table.
Keys(table) == {s \in Files \X Lines : s[2] \in table[s[1]]}

\* C15: the keys of the dedup table only grow: no step removes a key, and
\* a step that adds one is a warn_once call with a line other than -1, which
\* adds its own (file, line) and nothing else.
C15_TableOnlyGrows ==
    [][/\ Keys(warned) \subseteq Keys(warned')
       /\ warned' # warned =>
             /\ OnceCall(last')
             /\ Keys(warned') = Keys(warned) \cup {<<last'.file, last'.line>>}]_vars

C15_Witness ==
    /\ Keys(warned) = {<<"f.cpp", 10>>, <<"f.cpp", 11>>}
    /\ OnceCall(last)
    /\ last.thr = LOG_LEVEL_NONE

\* C14: after a warn_once call with a line other than -1, on any logger,
\* (file, line) is in the dedup table, whatever the logger's threshold and
\* whether or not a handler was invoked; and a warn_once call that finds its
\* (file, line) in the table invokes no handler, on whichever logger and
\* under whichever threshold it is made.
C14_KeyKeptUnconditionally ==
    /\ [](OnceCall(last) => <<last.file, last.line>> \in Keys(warned))
    /\ [][(/\ OnceCall(last')
           /\ WarnOnce(last'.lg, last'.text, last'.file, last'.line)
           /\ <<last'.file, last'.line>> \in Keys(warned))
          => /\ last'.already_logged
             /\ last'.inv = <<>>]_vars

C14_Witness ==
    /\ OnceCall(last)
    /\ last.lg = "net"
    /\ ~last.already_logged
    /\ last.thr = LOG_LEVEL_NONE
    /\ last.hs # <<>>
    /\ last.inv = <<>>
    /\ <<last.file, last.line>> \in Keys(warned)
    /\ level_["root"] = LOG_LEVEL_DEBUG
    /\ handlers_["root"] # <<>>

\* A debug, info, warn or error call whose level exceeds the threshold.
BelowThreshold(c) ==
    /\ c.op \in {"debug", "info", "warn", "error"}
    /\ SeverityOf(c.op) > c.thr

\* The step is the severity method call that last' describes.
SeverityCall ==
    \/ last'.op = "debug" /\ Debug(last'.lg, last'.text, last'.file, last'.line)
    \/ last'.op = "info" /\ Info(last'.lg, last'.text, last'.file, last'.line)
    \/ last'.op = "warn" /\ Warn(last'.lg, last'.text, last'.file, last'.line)
    \/ last'.op = "error" /\ Error(last'.lg, last'.text, last'.file, last'.line)

\* C16: a debug, info, warn or error call whose level exceeds the logger's
\* threshold returns without assembling the message and without invoking a
\* handler, raises no error also when an attached handler would fail, and
\* leaves every threshold, every handler list and the dedup table unchanged.
C16_BelowThresholdIsNoOp ==
    /\ [](BelowThreshold(last) =>
             /\ ~last.formatted
             /\ last.inv = <<>>
             /\ ~last.raised)
    /\ [][(BelowThreshold(last') /\ SeverityCall) =>
             /\ level_' = level_
             /\ handlers_' = handlers_
             /\ warned' = warned
             /\ registry' = registry
             /\ clock' = clock]_vars

C16_Witness ==
    /\ BelowThreshold(last)
    /\ last.op = "info"
    /\ last.thr = LOG_LEVEL_WARN
    /\ last.hs # <<>>
    /\ \A i \in 1..Len(last.hs) : last.hs[i] \in failing
    /\ ~last.raised
    /\ last.inv = <<>>

\* C17: a step that changes a logger's threshold is a set_level on that
\* logger and changes no other threshold and no handler list; a step that
\* changes a logger's handler list is an add_handler on that logger and
\* changes no other list and no threshold; a step that leaves the record of
\* a logging call changes neither; which handlers a call reaches is decided
\* by the threshold and the list of its own logger, also when the handler is
\* attached to another logger with another threshold.
C17_LoggersAreIndependent ==
    /\ [][\A lg \in Names :
             level_'[lg] # level_[lg] =>
                 \E level \in TwoLevels :
                     /\ SetLevel(lg, level)
                     /\ level_' = [level_ EXCEPT ![lg] = level]
                     /\ handlers_' = handlers_]_vars
    /\ [][\A lg \in Names :
             handlers_'[lg] # handlers_[lg] =>
                 \E h \in Handlers :
                     /\ AddHandler(lg, h)
                     /\ handlers_' = [handlers_ EXCEPT ![lg] = Append(@, h)]
                     /\ level_' = level_]_vars
    /\ [][last'.op # "none" => (level_' = level_ /\ handlers_' = handlers_)]_vars
    /\ [](last.op # "none" =>
             /\ last.thr = level_[last.lg]
             /\ last.hs = handlers_[last.lg]
             /\ ~last.already_logged =>
                   InvokedBy(last) = IF SeverityOf(last.op) <= level_[last.lg]
                                     THEN handlers_[last.lg] ELSE <<>>)

C17_Witness ==
    /\ handlers_["root"] = <<"h1">>
    /\ handlers_["net"] = <<"h1">>
    /\ level_["root"] = LOG_LEVEL_NONE
    /\ level_["net"] = LOG_LEVEL_WARN
    /\ last.lg = "net"
    /\ last.op = "warn"
    /\ InvokedBy(last) = <<"h1">>

\* The level name a method's records carry.
LevelNameOf(op) ==
    CASE op = "debug" -> "DEBUG"
      [] op = "info" -> "INFO"
      [] op = "warn" -> "WARN"
      [] op = "warn_once" -> "WARN"
      [] op = "error" -> "ERROR"

\* The line numbers of the call sites, written out in decimal.
LineText(line) ==
    CASE line = 0 - 1 -> <<"-", "1">>
      [] line = 10 -> <<"1", "0">>
      [] line = 11 -> <<"1", "1">>

\* "<thread-id>: <text> (<file>:<line>)"
RecordText(c) ==
    <<MainThread, ":", " ">> \o c.text
        \o <<" ", "(", c.file, ":">> \o LineText(c.line) \o <<")">>

\* C18: every handler invocation of a call carries the level name of the
\* method (DEBUG, INFO, WARN, ERROR; WARN for warn_once), the logger the
\* call was made on, and the text "<thread-id>: <text> (<file>:<line>)" with
\* the call's arguments, "(None:-1)" for the default file and line; and a
\* call that passes the filter never fails in assembling that text.
C18_RecordContent ==
    last.op # "none" =>
        /\ last.formatted => ~last.raised
        /\ \A i \in 1..Len(last.inv) :
              /\ last.inv[i].level = LevelNameOf(last.op)
              /\ last.inv[i].logger = last.lg
              /\ last.inv[i].message = RecordText(last)

C18_Witness ==
    /\ last.op = "warn_once"
    /\ last.inv # <<>>
    /\ last.inv[1].level = "WARN"
    /\ last.inv[1].logger = "root"
    /\ last.inv[1].message =
          <<"t1", ":", " ", "x", " ", "(", "None", ":", "-", "1", ")">>

=============================================================================
